---------------------------- MODULE Spec2Model ----------------------------
(***************************************************************************)
(* Model of app.py, the Streamlit wagon fill calculator.                   *)
(*                                                                         *)
(* The script is re-run from top to bottom on every interaction, so one    *)
(* interaction is one action: the widget changes, the utilisation          *)
(* calculation (lines 354-422) and the floor layout (build_floor_blocks_   *)
(* html, lines 59-149) are recomputed, and the Save / Clear buttons act on *)
(* st.session_state["calc_log"].                                           *)
(*                                                                         *)
(* Units.  Python floats are modelled by exact integers:                   *)
(*   - quantities (door_qty, large_pallet_qty, load_units, floor_units)    *)
(*     are counted in HALVES, so 5 stands for 2.5 and 30 for 15;           *)
(*   - lengths in cm, areas in cm2, volumes in cm3, weights in kg;         *)
(*   - a utilisation ratio is the fraction [n, d] in lowest terms.         *)
(***************************************************************************)
EXTENDS Integers, Sequences, FiniteSets

VARIABLES
    door_qty,                \* st.number_input "Door quantity"       (halves)
    large_pallet_qty,        \* st.number_input "Large pallet quantity" (halves)
    veh,                     \* the selected row of the vehicles table
    doors_upright_required,  \* st.checkbox
    double_stack_pallets,    \* st.checkbox
    width_pallets,           \* st.selectbox "Wagon width (pallets)"
    fill_order,              \* st.selectbox "Fill order"
    pallet_cap_equiv,        \* the capacity handed to build_floor_blocks_html
    out,                     \* the values computed by lines 354-415
    lay,                     \* the locals of build_floor_blocks_html
    calc_log,                \* st.session_state["calc_log"]
    pc                       \* "input" | "loop" | "done"

vars == << door_qty, large_pallet_qty, veh, doors_upright_required,
           double_stack_pallets, width_pallets, fill_order, pallet_cap_equiv,
           out, lay, calc_log, pc >>

inputs == << door_qty, large_pallet_qty, veh, doors_upright_required,
             double_stack_pallets, width_pallets, fill_order >>

---------------------------------------------------------------------------
(* Bounds of the model.                                                    *)

MaxDoorQty == 31         \* door quantities 0 .. 15.5
MaxPalletQty == 7        \* pallet quantities 0 .. 3.5
MaxLog == 1              \* rows kept in the session log
MaxCap == 100            \* layout capacities up to 100/32 pallet
MaxStillages == 3        \* door blocks handed to the layout
MaxLayoutPallets == 6    \* pallet quantities up to 3 handed to the layout
MaxFitStillages == 22    \* whole door quantities up to 22 stillages and a door
MaxFitPallets == 10      \* whole pallet quantities 0 .. 10

---------------------------------------------------------------------------
(* CONFIG / CONSTANTS, lines 32-45.                                        *)

DOORS_PER_STILLAGE == 14
STILLAGE_AREA_M2 == 15600
PALLET_AREA_M2 == 36000
DOOR_STILLAGE_WEIGHT_KG == 250
DOOR_STILLAGE_CUBE_M3 == 1600000
LARGE_PALLET_WEIGHT_KG == 600
LARGE_PALLET_CUBE_M3 == 2200000

---------------------------------------------------------------------------
(* Arithmetic.                                                             *)

\* math.ceil(a / b) for b > 0
Ceil(a, b) == -((-a) \div b)

\* math.floor(a / b) for b > 0
Floor(a, b) == a \div b

Max(a, b) == IF a >= b THEN a ELSE b

Abs(a) == IF a < 0 THEN -a ELSE a

RECURSIVE GCD(_, _)
GCD(a, b) == IF b = 0 THEN a ELSE GCD(b, a % b)

\* the float n / d, d > 0, as a fraction in lowest terms
Rat(n, d) ==
    LET g == GCD(Abs(n), d)
    IN  [n |-> n \div g, d |-> d \div g]

\* the float 0.0
Zero == [n |-> 0, d |-> 1]

\* a / b < c / d for b, d > 0, by continued fractions: no product is formed
RECURSIVE FracLess(_, _, _, _)
FracLess(a, b, c, d) ==
    LET q1 == a \div b
        q2 == c \div d
        r1 == a % b
        r2 == c % d
    IN  IF q1 # q2 THEN q1 < q2
        ELSE IF r2 = 0 THEN FALSE
        ELSE IF r1 = 0 THEN TRUE
        ELSE FracLess(d, r2, b, r1)

\* the float comparison r > s
Greater(r, s) == FracLess(s.n, s.d, r.n, r.d)

\* qty * per_unit for a quantity in halves; every per-unit constant is even
Times(qty, per_unit) == (qty * per_unit) \div 2

\* a whole count as a quantity in halves: float(n)
Whole(n) == 2 * n

\* a value not set or not computed yet
None == [none |-> TRUE]

---------------------------------------------------------------------------
(* VEHICLE DEFINITIONS, lines 314-325.                                     *)

vehicles ==
    << [vehicle |-> "3.5t", L_m |-> 366, W_m |-> 200, H_m |-> 175,
        payload_kg |-> 1200, doors_upright_allowed |-> FALSE],
       [vehicle |-> "7.5t", L_m |-> 549, W_m |-> 240, H_m |-> 220,
        payload_kg |-> 2500, doors_upright_allowed |-> FALSE],
       [vehicle |-> "18t", L_m |-> 833, W_m |-> 254, H_m |-> 267,
        payload_kg |-> 10000, doors_upright_allowed |-> TRUE],
       [vehicle |-> "26t", L_m |-> 833, W_m |-> 254, H_m |-> 280,
        payload_kg |-> 15500, doors_upright_allowed |-> TRUE],
       [vehicle |-> "44t Artic & Trailer", L_m |-> 1350, W_m |-> 248,
        H_m |-> 277, payload_kg |-> 28000, doors_upright_allowed |-> TRUE] >>

\* vehicles["cube_cap_m3"] = L_m * W_m * H_m
CubeCapM3(v) == v.L_m * v.W_m * v.H_m

\* vehicles["floor_area_m2"] = L_m * W_m
FloorAreaM2(v) == v.L_m * v.W_m

Catalog == { vehicles[i] : i \in DOMAIN vehicles }

\* st.selectbox(..., index=len(vehicles) - 1)
DefaultVehicle == vehicles[Len(vehicles)]

---------------------------------------------------------------------------
(* CONVERT LOAD and UTILISATION, lines 354-415.                            *)

\* (mutant) the stillage count rounded down instead of up
DoorStillagesFloored(d) ==
    IF DOORS_PER_STILLAGE > 0 THEN Floor(d, 2 * DOORS_PER_STILLAGE) ELSE 0

\* door_stillages = int(math.ceil(door_qty / DOORS_PER_STILLAGE)), line 354
DoorStillages(d) ==
    IF DOORS_PER_STILLAGE > 0 THEN Ceil(d, 2 * DOORS_PER_STILLAGE) ELSE 0

\* pallet_floor_qty, lines 356-358 (a quantity in halves)
PalletFloorQty(p, double_stack) ==
    IF double_stack THEN Whole(Ceil(p, 4)) ELSE p

\* the lines DataFrame with its three total columns, lines 363-392
Lines(d, p, double_stack, upright_required) ==
    LET door_line ==
            [item |-> "Doors (in stillages)",
             qty |-> d,
             load_units |-> Whole(DoorStillages(d)),
             floor_units |-> Whole(DoorStillages(d)),
             footprint_m2_per_unit |-> STILLAGE_AREA_M2,
             weight_per_unit_kg |-> DOOR_STILLAGE_WEIGHT_KG,
             vol_per_unit_m3 |-> DOOR_STILLAGE_CUBE_M3,
             upright_required |-> upright_required]
        pallet_line ==
            [item |-> "Large pallets (1200x3000)",
             qty |-> p,
             load_units |-> p,
             floor_units |-> PalletFloorQty(p, double_stack),
             footprint_m2_per_unit |-> PALLET_AREA_M2,
             weight_per_unit_kg |-> LARGE_PALLET_WEIGHT_KG,
             vol_per_unit_m3 |-> LARGE_PALLET_CUBE_M3,
             upright_required |-> FALSE]
        Totals(l) ==
            [item |-> l.item, qty |-> l.qty, load_units |-> l.load_units,
             floor_units |-> l.floor_units,
             upright_required |-> l.upright_required,
             total_floor_m2 |-> Times(l.floor_units, l.footprint_m2_per_unit),
             total_weight_kg |-> Times(l.load_units, l.weight_per_unit_kg),
             total_vol_m3 |-> Times(l.load_units, l.vol_per_unit_m3)]
    IN  << Totals(door_line), Totals(pallet_line) >>

\* lines["total_weight_kg"].sum(), line 394
TotalWeight(lines) == lines[1].total_weight_kg + lines[2].total_weight_kg

\* lines["total_vol_m3"].sum(), line 395
TotalCube(lines) == lines[1].total_vol_m3 + lines[2].total_vol_m3

\* needs_upright, line 397
NeedsUpright(lines) ==
    \E i \in DOMAIN lines :
        lines[i].upright_required /\ lines[i].load_units > 0

\* (mutant) the upright check without the load_units > 0 condition
UprightOkWhateverLoad(lines, v) ==
    (~(\E i \in DOMAIN lines : lines[i].upright_required))
        \/ v.doors_upright_allowed

\* upright_ok, line 398
UprightOk(lines, v) == (~NeedsUpright(lines)) \/ v.doors_upright_allowed

\* floor_used_m2, line 407
FloorUsedM2(d, p, double_stack) ==
    DoorStillages(d) * STILLAGE_AREA_M2
        + Times(PalletFloorQty(p, double_stack), PALLET_AREA_M2)

\* (mutant) a zero capacity reported as fully used
UtilFullWithoutCap(used, cap) ==
    IF cap # 0 THEN Rat(used, cap) ELSE [n |-> 1, d |-> 1]

\* (used / cap) if cap else 0.0, lines 409-411
Util(used, cap) == IF cap # 0 THEN Rat(used, cap) ELSE Zero

\* utils, line 413: a dict, in insertion order
Utils(floor_util, cube_util, weight_util) ==
    << << "Floor space (m2)", floor_util >>,
       << "Cube", cube_util >>,
       << "Weight", weight_util >> >>

\* (mutant) a max that moves on to a later element on a tie
RECURSIVE PyMaxLast(_, _, _)
PyMaxLast(utils, i, best) ==
    IF i > Len(utils) THEN best
    ELSE PyMaxLast(utils, i + 1,
                   IF Greater(utils[best][2], utils[i][2]) THEN best ELSE i)

\* Python's max(iterable, key=...): the first element is kept until a
\* strictly greater one is met
RECURSIVE PyMax(_, _, _)
PyMax(utils, i, best) ==
    IF i > Len(utils) THEN best
    ELSE PyMax(utils, i + 1,
               IF Greater(utils[i][2], utils[best][2]) THEN i ELSE best)

\* limiting = max(utils, key=utils.get), line 414
Limiting(utils) == utils[PyMax(utils, 2, 1)][1]

\* overall = max(utils.values()), line 415
Overall(utils) == utils[PyMax(utils, 2, 1)][2]

\* everything lines 354-415 compute from the widgets
ComputeUtilisation(d, p, v, double_stack, upright_required) ==
    LET lines == Lines(d, p, double_stack, upright_required)
        floor_area_m2 == FloorAreaM2(v)
        cube_cap == IF CubeCapM3(v) # 0 THEN CubeCapM3(v) ELSE 0
        payload_cap == IF v.payload_kg # 0 THEN v.payload_kg ELSE 0
        floor_used_m2 == FloorUsedM2(d, p, double_stack)
        floor_util == Util(floor_used_m2, floor_area_m2)
        cube_util == Util(TotalCube(lines), cube_cap)
        weight_util == Util(TotalWeight(lines), payload_cap)
        utils == Utils(floor_util, cube_util, weight_util)
    IN  [door_stillages |-> DoorStillages(d),
         pallet_floor_qty |-> PalletFloorQty(p, double_stack),
         lines |-> lines,
         total_weight |-> TotalWeight(lines),
         total_cube |-> TotalCube(lines),
         needs_upright |-> NeedsUpright(lines),
         upright_ok |-> UprightOk(lines, v),
         floor_area_m2 |-> floor_area_m2,
         cube_cap |-> cube_cap,
         payload_cap |-> payload_cap,
         floor_used_m2 |-> floor_used_m2,
         floor_util |-> floor_util,
         cube_util |-> cube_util,
         weight_util |-> weight_util,
         limiting |-> Limiting(utils),
         overall |-> Overall(utils)]

---------------------------------------------------------------------------
(* build_floor_blocks_html, lines 59-149.                                  *)

Q == 4
PAL_W == 4
PAL_H == 4
DOOR_W == 3
DOOR_H == 2

\* floor_w = max(1, int(columns_pallets)) * Q, line 84
FloorW(columns_pallets) == Max(1, columns_pallets) * Q

\* (mutant) the capacity in quarter-units rounded to the nearest integer
CapQuartersRounded(cap) ==
    IF cap.n <= 0 THEN 0 ELSE (2 * cap.n * (Q * Q) + cap.d) \div (2 * cap.d)

\* cap_quarters = int(math.floor(max(0.0, cap) * (Q * Q))), lines 86-87;
\* cap is the fraction [n, d]
CapQuarters(cap) ==
    IF cap.n <= 0 THEN 0 ELSE Floor(cap.n * (Q * Q), cap.d)

\* Python's round() of a quantity in halves: a tie goes to the even integer
Round(p) ==
    LET q == p \div 2
    IN  IF p % 2 = 0 THEN q
        ELSE IF q % 2 = 0 THEN q ELSE q + 1

\* pallet_count = max(0, int(round(float(large_pallet_qty)))), line 90
PalletCount(p) == Max(0, Round(p))

\* the loop of lines 99-102
RECURSIVE Stacks(_, _)
Stacks(stacks, remaining) ==
    IF stacks = 0 THEN << >>
    ELSE LET stack_n == IF remaining >= 2 THEN 2 ELSE 1
         IN  << stack_n >> \o Stacks(stacks - 1, remaining - stack_n)

\* pallet_stacks, lines 95-104
PalletStacks(pallet_count, double_stack) ==
    IF double_stack /\ pallet_count > 0
    THEN Stacks(Ceil(pallet_count, 2), pallet_count)
    ELSE [i \in 1 .. pallet_count |-> 1]

\* (mutant) a door block of 4 x 2 quarter-units, half a pallet
AddDoorsHalfPallet(door_stillages) ==
    [i \in 1 .. door_stillages |->
        [kind |-> "door", label |-> << "D", i >>, w |-> PAL_W, h |-> DOOR_H]]

\* add_doors, lines 108-110; the label D<i> is the pair <<"D", i>>
AddDoors(door_stillages) ==
    [i \in 1 .. door_stillages |->
        [kind |-> "door", label |-> << "D", i >>, w |-> DOOR_W, h |-> DOOR_H]]

\* add_pallets, lines 112-115; the label P<i> or P<i>x<n> is <<"P", i, n>>
AddPallets(pallet_stacks) ==
    [i \in 1 .. Len(pallet_stacks) |->
        [kind |-> "pallet", label |-> << "P", i, pallet_stacks[i] >>,
         w |-> PAL_W, h |-> PAL_H]]

\* items, lines 106-122
Items(door_stillages, pallet_stacks, order) ==
    IF order = "Pallets then doors"
    THEN AddPallets(pallet_stacks) \o AddDoors(door_stillages)
    ELSE AddDoors(door_stillages) \o AddPallets(pallet_stacks)

\* (mutant) an overflowed item put in front of the list
PrependOverflow(overflow, item) == << item >> \o overflow

\* overflow.append(...), lines 133 and 143
AppendOverflow(overflow, item) == Append(overflow, item)

\* (mutant) a wrap that goes back to x = 0 without moving down
WrapSameRow(s) == [s EXCEPT !.x = 0, !.shelf_h = 0]

\* the wrap, lines 137-139
Wrap(s) == [s EXCEPT !.x = 0, !.y = s.y + s.shelf_h, !.shelf_h = 0]

\* the placement, lines 146-149
Place(s, item) ==
    [s EXCEPT !.placed = Append(s.placed,
                                [kind |-> item.kind, label |-> item.label,
                                 x |-> s.x, y |-> s.y,
                                 w |-> item.w, h |-> item.h]),
              !.x = s.x + item.w,
              !.shelf_h = Max(s.shelf_h, item.h),
              !.used_quarters = s.used_quarters + item.w * item.h]

\* one pass of the loop body, lines 131-149, on the locals s
LoopBody(s, item) ==
    IF item.w > s.floor_w
    THEN [s EXCEPT !.overflow = AppendOverflow(s.overflow, item)]
    ELSE LET t == IF s.x + item.w > s.floor_w THEN Wrap(s) ELSE s
             new_used == t.used_quarters + item.w * item.h
         IN  IF new_used > t.cap_quarters
             THEN [t EXCEPT !.overflow = AppendOverflow(t.overflow, item)]
             ELSE Place(t, item)

\* the locals on entry to the loop, lines 83-129; i counts the items done
LoopStart(cap, door_stillages, pallet_qty, columns, order, double_stack) ==
    LET pallet_stacks == PalletStacks(PalletCount(pallet_qty), double_stack)
    IN  [floor_w |-> FloorW(columns),
         cap_quarters |-> CapQuarters(cap),
         door_stillages |-> Max(0, door_stillages),
         pallet_count |-> PalletCount(pallet_qty),
         pallet_stacks |-> pallet_stacks,
         items |-> Items(Max(0, door_stillages), pallet_stacks, order),
         i |-> 0,
         placed |-> << >>,
         overflow |-> << >>,
         x |-> 0,
         y |-> 0,
         shelf_h |-> 0,
         used_quarters |-> 0]

\* the next iteration of the for loop, line 131
Iterate(s) == [LoopBody(s, s.items[s.i + 1]) EXCEPT !.i = s.i + 1]

\* the for loop run to its end
RECURSIVE RunLoop(_)
RunLoop(s) == IF s.i = Len(s.items) THEN s ELSE RunLoop(Iterate(s))

\* the locals of build_floor_blocks_html at line 150
BuildFloorBlocks(cap, door_stillages, pallet_qty, columns, order, stack) ==
    RunLoop(LoopStart(cap, door_stillages, pallet_qty, columns, order, stack))

---------------------------------------------------------------------------
(* The layout as a function of its arguments: the specification SpecLayout *)
(* draws the arguments of build_floor_blocks_html from bounded sets and    *)
(* runs its loop one item at a time.  The door_stillages argument is held  *)
(* in out.door_stillages; the widgets that are no argument are not set.    *)

FillOrders == { "Doors then pallets", "Pallets then doors" }

\* the widths the selectbox of line 478 offers
Widths == { 1, 2, 3 }

InitLayout ==
    /\ pallet_cap_equiv \in { [n |-> c, d |-> 32] : c \in (-2) .. MaxCap }
    /\ out \in { [door_stillages |-> n] : n \in (-1) .. MaxStillages }
    /\ large_pallet_qty \in (-1) .. MaxLayoutPallets
    /\ width_pallets \in {0} \cup Widths
    /\ fill_order \in FillOrders
    /\ double_stack_pallets \in BOOLEAN
    /\ door_qty = None
    /\ veh = None
    /\ doors_upright_required = TRUE
    /\ calc_log = << >>
    /\ lay = LoopStart(pallet_cap_equiv, out.door_stillages, large_pallet_qty,
                       width_pallets, fill_order, double_stack_pallets)
    /\ pc = "loop"

\* one item of the for loop of line 131
NextItem ==
    /\ pc = "loop"
    /\ lay.i < Len(lay.items)
    /\ lay' = Iterate(lay)
    /\ UNCHANGED << inputs, pallet_cap_equiv, out, calc_log, pc >>

\* the loop is left, line 151
LoopEnd ==
    /\ pc = "loop"
    /\ lay.i = Len(lay.items)
    /\ pc' = "done"
    /\ UNCHANGED << inputs, pallet_cap_equiv, out, lay, calc_log >>

NextLayout == NextItem \/ LoopEnd

SpecLayout == InitLayout /\ [][NextLayout]_vars

---------------------------------------------------------------------------
(* The calculation as a function of its inputs: the specification SpecCalc *)
(* draws the widget values and the vehicle row from bounded sets and       *)
(* runs the script body, lines 354-494, on them once.                      *)

\* vehicle rows outside the catalog: zero dimensions and payloads, and one
\* row (22 m3, 6000 kg) on which pallets load cube and weight alike
OtherVehicles ==
    { [vehicle |-> "other", L_m |-> l, W_m |-> 240, H_m |-> h,
       payload_kg |-> k, doors_upright_allowed |-> a] :
          l \in {0, 520}, h \in {0, 200}, k \in {0, 1000}, a \in BOOLEAN }
    \cup
    { [vehicle |-> "other", L_m |-> 1000, W_m |-> 1000, H_m |-> 22,
       payload_kg |-> 6000, doors_upright_allowed |-> a] : a \in BOOLEAN }

InitCalc ==
    /\ door_qty \in 0 .. MaxDoorQty
    /\ large_pallet_qty \in 0 .. MaxPalletQty
    /\ veh \in Catalog \cup OtherVehicles
    /\ doors_upright_required \in BOOLEAN
    /\ double_stack_pallets \in BOOLEAN
    /\ width_pallets \in Widths
    /\ fill_order \in FillOrders
    /\ pallet_cap_equiv = None
    /\ out = None
    /\ lay = None
    /\ calc_log = << >>
    /\ pc = "input"

\* pallet_cap_equiv, line 484
PalletCapEquiv(v) ==
    IF PALLET_AREA_M2 # 0 THEN Rat(FloorAreaM2(v), PALLET_AREA_M2) ELSE Zero

\* the script body, lines 354-494: the calculation, then the layout called
\* with the calculation's stillage count and the raw pallet quantity
Calculate ==
    /\ pc = "input"
    /\ out' = ComputeUtilisation(door_qty, large_pallet_qty, veh,
                                 double_stack_pallets, doors_upright_required)
    /\ pallet_cap_equiv' = PalletCapEquiv(veh)
    /\ lay' = BuildFloorBlocks(pallet_cap_equiv', out'.door_stillages,
                               large_pallet_qty, width_pallets, fill_order,
                               double_stack_pallets)
    /\ pc' = "done"
    /\ UNCHANGED << inputs, calc_log >>

NextCalc == Calculate

SpecCalc == InitCalc /\ [][NextCalc]_vars

\* the same calculation on raw values, negative ones included, as if the
\* widgets' min_value did not stand before it
InitRaw ==
    /\ door_qty \in (-MaxDoorQty) .. MaxDoorQty
    /\ large_pallet_qty \in (-MaxPalletQty) .. MaxPalletQty
    /\ veh \in Catalog
    /\ doors_upright_required \in BOOLEAN
    /\ double_stack_pallets \in BOOLEAN
    /\ width_pallets = 2
    /\ fill_order = "Doors then pallets"
    /\ pallet_cap_equiv = None
    /\ out = None
    /\ lay = None
    /\ calc_log = << >>
    /\ pc = "input"

SpecRaw == InitRaw /\ [][NextCalc]_vars

\* the script body on whole quantities large enough to fill the floor of the
\* catalog vehicles: door quantities on both sides of each whole number of
\* stillages, and whole pallet quantities
InitFit ==
    /\ door_qty \in { Whole(DOORS_PER_STILLAGE * k + j) :
                          k \in 0 .. MaxFitStillages, j \in {0, 1} }
    /\ large_pallet_qty \in { Whole(n) : n \in 0 .. MaxFitPallets }
    /\ veh \in Catalog
    /\ doors_upright_required = TRUE
    /\ double_stack_pallets \in BOOLEAN
    /\ width_pallets \in Widths
    /\ fill_order \in FillOrders
    /\ pallet_cap_equiv = None
    /\ out = None
    /\ lay = None
    /\ calc_log = << >>
    /\ pc = "input"

SpecFit == InitFit /\ [][NextCalc]_vars

---------------------------------------------------------------------------
(* One user session: the specification Spec.  The state is the widgets and *)
(* st.session_state; every interaction re-runs the whole script.  The      *)
(* quantities typed and the vehicles chosen come from small sets.  Of a    *)
(* log row, the timestamp, the delivery date, the site location and the    *)
(* remaining-space and status columns are left out.                        *)

\* the quantities typed in the session: 0 and 15 doors, 0 and 2.5 pallets
SessionDoorQtys == { 0, Whole(DOORS_PER_STILLAGE + 1) }

SessionPalletQtys == { 0, 5 }

\* the vehicles chosen in the session: the first and the last of the catalog
SessionVehicles == { vehicles[1], vehicles[Len(vehicles)] }

\* log_row, lines 512-547
LogRow(d, p, v, double_stack, o) ==
    [vehicle |-> v.vehicle,
     L_m |-> v.L_m,
     W_m |-> v.W_m,
     H_m |-> v.H_m,
     payload_cap_kg |-> o.payload_cap,
     cube_cap_m3 |-> o.cube_cap,
     floor_cap_m2 |-> o.floor_area_m2,
     doors_qty |-> d,
     door_stillages |-> o.door_stillages,
     pallet_qty |-> p,
     double_stack_pallets |-> double_stack,
     pallet_floor_qty |-> o.pallet_floor_qty,
     floor_used_m2 |-> o.floor_used_m2,
     floor_util_pct |-> o.floor_util,
     cube_used_m3 |-> o.total_cube,
     cube_util_pct |-> o.cube_util,
     weight_used_kg |-> o.total_weight,
     weight_util_pct |-> o.weight_util,
     limiting_factor |-> o.limiting,
     overall_util_pct |-> o.overall]

\* (mutant) the log set to [] on every run of the script
FreshLog(log) == << >>

\* lines 501-502: the log is set to [] only when the session has none yet
SessionLog(log) == log

\* the log after the buttons of lines 551-559
LogAfter(button, log, row) ==
    IF button = "save" THEN Append(SessionLog(log), row)
    ELSE IF button = "clear" THEN << >>
    ELSE SessionLog(log)

\* one run of the script, lines 331-561, with the widget values given and
\* the button clicked, if any
Rerun(d, p, v, upright_required, double_stack, width, order, button) ==
    /\ door_qty' = d
    /\ large_pallet_qty' = p
    /\ veh' = v
    /\ doors_upright_required' = upright_required
    /\ double_stack_pallets' = double_stack
    /\ width_pallets' = width
    /\ fill_order' = order
    /\ out' = ComputeUtilisation(d, p, v, double_stack, upright_required)
    /\ pallet_cap_equiv' = PalletCapEquiv(v)
    /\ lay' = BuildFloorBlocks(pallet_cap_equiv', out'.door_stillages, p,
                               width, order, double_stack)
    /\ calc_log' = LogAfter(button, calc_log,
                            LogRow(d, p, v, double_stack, out'))
    /\ pc' = "done"

\* the first run of the script, with every widget at its default
Init ==
    /\ door_qty = 0
    /\ large_pallet_qty = 0
    /\ veh = DefaultVehicle
    /\ doors_upright_required = TRUE
    /\ double_stack_pallets = FALSE
    /\ width_pallets = 2
    /\ fill_order = "Doors then pallets"
    /\ out = ComputeUtilisation(0, 0, DefaultVehicle, FALSE, TRUE)
    /\ pallet_cap_equiv = PalletCapEquiv(DefaultVehicle)
    /\ lay = BuildFloorBlocks(pallet_cap_equiv, out.door_stillages, 0, 2,
                              "Doors then pallets", FALSE)
    /\ calc_log = << >>
    /\ pc = "done"

SetDoorQty ==
    \E d \in SessionDoorQtys \ {door_qty} :
        Rerun(d, large_pallet_qty, veh, doors_upright_required,
              double_stack_pallets, width_pallets, fill_order, "none")

SetPalletQty ==
    \E p \in SessionPalletQtys \ {large_pallet_qty} :
        Rerun(door_qty, p, veh, doors_upright_required,
              double_stack_pallets, width_pallets, fill_order, "none")

ChooseVehicle ==
    \E v \in SessionVehicles \ {veh} :
        Rerun(door_qty, large_pallet_qty, v, doors_upright_required,
              double_stack_pallets, width_pallets, fill_order, "none")

ToggleUprightRequired ==
    Rerun(door_qty, large_pallet_qty, veh, ~doors_upright_required,
          double_stack_pallets, width_pallets, fill_order, "none")

ToggleDoubleStack ==
    Rerun(door_qty, large_pallet_qty, veh, doors_upright_required,
          ~double_stack_pallets, width_pallets, fill_order, "none")

ChooseWidth ==
    \E w \in Widths \ {width_pallets} :
        Rerun(door_qty, large_pallet_qty, veh, doors_upright_required,
              double_stack_pallets, w, fill_order, "none")

ChooseFillOrder ==
    \E f \in FillOrders \ {fill_order} :
        Rerun(door_qty, large_pallet_qty, veh, doors_upright_required,
              double_stack_pallets, width_pallets, f, "none")

\* the button of line 552; the model stops saving at MaxLog rows
SaveToLog ==
    /\ Len(calc_log) < MaxLog
    /\ Rerun(door_qty, large_pallet_qty, veh, doors_upright_required,
             double_stack_pallets, width_pallets, fill_order, "save")

\* the button of line 557
ClearLog ==
    Rerun(door_qty, large_pallet_qty, veh, doors_upright_required,
          double_stack_pallets, width_pallets, fill_order, "clear")

Next ==
    \/ SetDoorQty
    \/ SetPalletQty
    \/ ChooseVehicle
    \/ ToggleUprightRequired
    \/ ToggleDoubleStack
    \/ ChooseWidth
    \/ ChooseFillOrder
    \/ SaveToLog
    \/ ClearLog

Spec == Init /\ [][Next]_vars

---------------------------------------------------------------------------
(* Claims about the calculation.                                           *)

\* the three ratios of a result, in the order of the utils dict
Ratios(o) == << o.floor_util, o.cube_util, o.weight_util >>

AxisNames == << "Floor space (m2)", "Cube", "Weight" >>

\* the fraction r equals n / d
IsFrac(r, n, d) == ~FracLess(r.n, r.d, n, d) /\ ~FracLess(n, d, r.n, r.d)

\* C1: the overall utilisation is the maximum of the floor, cube and weight
\* ratios, and the limiting factor is the first axis, in the order floor
\* space, cube, weight, whose ratio equals that maximum.
C1_OverallIsMaxLimitingIsFirstArgmax ==
    pc = "done" =>
        LET r == Ratios(out)
        IN  /\ \A i \in 1 .. 3 : ~Greater(r[i], out.overall)
            /\ \E i \in 1 .. 3 :
                   /\ AxisNames[i] = out.limiting
                   /\ r[i] = out.overall
                   /\ \A j \in 1 .. (i - 1) : r[j] # out.overall

\* C1 witness: cube and weight tie for the maximum above floor space, and
\* cube, the first of the two, is reported.
C1_Witness ==
    /\ pc = "done"
    /\ out.cube_util = out.weight_util
    /\ Greater(out.cube_util, out.floor_util)
    /\ out.limiting = "Cube"

\* C3: the stillage count n is ceil(d / 14), that is 14 (n - 1) < d <= 14 n,
\* and it is 0 exactly when d = 0.
C3_StillagesAreCeiling ==
    pc = "done" =>
        LET n == out.door_stillages
        IN  /\ door_qty <= Whole(n * DOORS_PER_STILLAGE)
            /\ Whole((n - 1) * DOORS_PER_STILLAGE) < door_qty
            /\ (n = 0 <=> door_qty = 0)

\* C3 witness: 15 doors need 2 stillages.
C3_Witness ==
    /\ pc = "done"
    /\ door_qty = Whole(DOORS_PER_STILLAGE + 1)
    /\ out.door_stillages = 2

\* the numbers of a result, without the upright flags
Numbers(o) ==
    << o.floor_util, o.cube_util, o.weight_util, o.overall, o.limiting >>

\* C6: the load is flagged as not allowed exactly when some load line
\* requires upright handling with a non-zero number of load units and the
\* vehicle does not permit upright stillages; the ratios, the overall ratio
\* and the limiting factor are the same for every upright-required setting
\* and every upright-allowed flag of the vehicle.
C6_UprightFlagApartFromNumbers ==
    pc = "done" =>
        /\ (~out.upright_ok) <=>
               /\ \E i \in DOMAIN out.lines :
                      /\ out.lines[i].upright_required
                      /\ out.lines[i].load_units # 0
               /\ ~veh.doors_upright_allowed
        /\ \A u \in BOOLEAN, a \in BOOLEAN :
               Numbers(ComputeUtilisation(
                           door_qty, large_pallet_qty,
                           [veh EXCEPT !.doors_upright_allowed = a],
                           double_stack_pallets, u)) = Numbers(out)

\* C6 witness: doors that must stand upright on a vehicle that cannot take
\* them, flagged while the utilisation is reported as usual.
C6_Witness ==
    /\ pc = "done"
    /\ ~out.upright_ok
    /\ doors_upright_required
    /\ out.door_stillages > 0
    /\ out.overall # Zero

\* C8: on each axis a zero capacity gives the ratio 0 whatever is used, and
\* a non-zero capacity gives used / capacity.
C8_ZeroCapacityGivesZeroRatio ==
    pc = "done" =>
        /\ IF FloorAreaM2(veh) = 0
           THEN out.floor_util = Zero
           ELSE IsFrac(out.floor_util, out.floor_used_m2, FloorAreaM2(veh))
        /\ IF CubeCapM3(veh) = 0
           THEN out.cube_util = Zero
           ELSE IsFrac(out.cube_util, out.total_cube, CubeCapM3(veh))
        /\ IF veh.payload_kg = 0
           THEN out.weight_util = Zero
           ELSE IsFrac(out.weight_util, out.total_weight, veh.payload_kg)

\* C8 witness: a load with weight on a vehicle whose payload is 0 and whose
\* cube capacity is not: the weight ratio is 0, the cube ratio is not.
C8_Witness ==
    /\ pc = "done"
    /\ veh.payload_kg = 0
    /\ out.total_weight > 0
    /\ out.weight_util = Zero
    /\ CubeCapM3(veh) # 0
    /\ out.cube_util # Zero

\* C2: with double-stacking enabled, total weight and total volume equal
\* their values with double-stacking disabled (both count the full pallet
\* quantity p), the effective pallet count for floor area is ceil(p / 2), and
\* the floor layout builds ceil(p / 2) pallet blocks; for whole and
\* fractional p alike.
C2_DoubleStackOnlyChangesFloor ==
    (pc = "done" /\ double_stack_pallets) =>
        LET off == ComputeUtilisation(door_qty, large_pallet_qty, veh, FALSE,
                                      doors_upright_required)
        IN  /\ out.total_weight = off.total_weight
            /\ out.total_cube = off.total_cube
            /\ out.total_weight =
                   out.door_stillages * DOOR_STILLAGE_WEIGHT_KG
                       + Times(large_pallet_qty, LARGE_PALLET_WEIGHT_KG)
            /\ out.total_cube =
                   out.door_stillages * DOOR_STILLAGE_CUBE_M3
                       + Times(large_pallet_qty, LARGE_PALLET_CUBE_M3)
            /\ out.pallet_floor_qty = Whole(Ceil(large_pallet_qty, 4))
            /\ Len(lay.pallet_stacks) = Ceil(large_pallet_qty, 4)

---------------------------------------------------------------------------
(* Claims about the floor layout.                                          *)

\* the area, in quarter-units, of a list of items or placed blocks
RECURSIVE SumArea(_)
SumArea(blocks) ==
    IF blocks = << >> THEN 0
    ELSE Head(blocks).w * Head(blocks).h + SumArea(Tail(blocks))

\* the items the loop has gone through
ItemsDone == SubSeq(lay.items, 1, lay.i)

InOverflow(item) == \E m \in DOMAIN lay.overflow : lay.overflow[m] = item

IsPlaced(item) == \E m \in DOMAIN lay.placed : lay.placed[m].label = item.label

\* C4: after each item the placed area in quarter-units is at most
\* capacity x 16 with the capacity clamped at 0, hence at most its floor;
\* with a capacity of 0 nothing is placed and every item is in overflow.
C4_PlacedAreaWithinFlooredCapacity ==
    LET capn == Max(0, pallet_cap_equiv.n)
    IN  /\ lay.used_quarters = SumArea(lay.placed)
        /\ lay.used_quarters * pallet_cap_equiv.d <= capn * (Q * Q)
        /\ capn = 0 => (lay.placed = << >> /\ lay.overflow = ItemsDone)

\* C4 witness: a capacity of k + 1/2 quarter-units, and an item in overflow
\* that would have brought the placed area to k + 1.
C4_Witness ==
    /\ pc = "done"
    /\ pallet_cap_equiv.d = 2 * (Q * Q)
    /\ pallet_cap_equiv.n % 2 = 1
    /\ lay.placed # << >>
    /\ \E m \in DOMAIN lay.overflow :
           2 * (lay.used_quarters + lay.overflow[m].w * lay.overflow[m].h)
               = pallet_cap_equiv.n + 1

\* the overflow list is the list of the items not placed, in list order
OverflowInListOrder ==
    LET NotPlaced(item) == ~IsPlaced(item)
    IN  lay.overflow = SelectSeq(ItemsDone, NotPlaced)

\* C5 as stated: once an item has gone to overflow, every item after it in
\* the list goes to overflow too, and the overflow list keeps list order.
C5_OverflowIsFinal ==
    /\ \A j \in 1 .. lay.i, k \in 1 .. lay.i :
           (j < k /\ InOverflow(lay.items[j])) => InOverflow(lay.items[k])
    /\ OverflowInListOrder

\* C5 amended: once an item has gone to overflow, every item after it whose
\* area is not smaller goes to overflow too (a door block after a pallet
\* block may still be placed), and the overflow list keeps list order.
C5_OverflowIsFinalForNoSmallerItems ==
    /\ \A j \in 1 .. lay.i, k \in 1 .. lay.i :
           ( /\ j < k
             /\ InOverflow(lay.items[j])
             /\ lay.items[k].w * lay.items[k].h
                    >= lay.items[j].w * lay.items[j].h )
               => InOverflow(lay.items[k])
    /\ OverflowInListOrder

\* C5 witness: a pallet block in overflow, a later pallet block in overflow
\* as well, and a door block after both of them placed.
C5_Witness ==
    /\ pc = "done"
    /\ \E j \in 1 .. lay.i, k \in 1 .. lay.i, l \in 1 .. lay.i :
           /\ j < k /\ k < l
           /\ InOverflow(lay.items[j])
           /\ InOverflow(lay.items[k])
           /\ IsPlaced(lay.items[l])

\* C10: every placed block lies inside the grid width, and no two placed
\* blocks overlap.
C10_PlacedInsideGridAndDisjoint ==
    /\ \A a \in DOMAIN lay.placed :
           LET b == lay.placed[a]
           IN  /\ 0 <= b.x
               /\ 0 <= b.y
               /\ b.x + b.w <= Max(1, width_pallets) * Q
    /\ \A a \in DOMAIN lay.placed, c \in DOMAIN lay.placed :
           a < c =>
               LET b == lay.placed[a]
                   e == lay.placed[c]
               IN  \/ b.x + b.w <= e.x
                   \/ e.x + e.w <= b.x
                   \/ b.y + b.h <= e.y
                   \/ e.y + e.h <= b.y

\* C10 witness: the first door block starts a new row after pallet blocks,
\* the wrap to that row having been made by a pallet block that went to
\* overflow.
C10_Witness ==
    /\ pc = "done"
    /\ width_pallets \in Widths
    /\ \E m \in DOMAIN lay.overflow : lay.overflow[m].kind = "pallet"
    /\ \E a \in DOMAIN lay.placed :
           /\ lay.placed[a].label = << "D", 1 >>
           /\ lay.placed[a].x = 0
           /\ lay.placed[a].y > 0

---------------------------------------------------------------------------
(* Claims about the session log.                                           *)

IsPrefix(s, t) == Len(s) <= Len(t) /\ SubSeq(t, 1, Len(s)) = s

---------------------------------------------------------------------------
(* Claims about the calculation and the floor layout together.             *)

\* the float 1.0
One == [n |-> 1, d |-> 1]

\* C11: for a catalog vehicle and whole door and pallet quantities, with
\* either stacking setting, fill order and grid width, if the floor
\* utilisation is at most 1.0 (floor area used <= vehicle floor area) then
\* the floor layout, called with floor area / pallet footprint area as its
\* capacity, places every item and its overflow list is empty.
C11_FitsByAreaThenLayoutPlacesAll ==
    ( /\ pc = "done"
      /\ veh \in Catalog
      /\ door_qty % 2 = 0
      /\ large_pallet_qty % 2 = 0
      /\ ~Greater(out.floor_util, One)
      /\ out.floor_used_m2 <= FloorAreaM2(veh) )
        => /\ lay.overflow = << >>
           /\ Len(lay.placed) = Len(lay.items)
           /\ \A i \in DOMAIN lay.items : IsPlaced(lay.items[i])

\* C11 witness: door stillages and stacked pallets that leave less than one
\* stillage footprint of floor area free, all of them placed.
C11_Witness ==
    /\ pc = "done"
    /\ veh \in Catalog
    /\ double_stack_pallets
    /\ out.door_stillages > 0
    /\ large_pallet_qty > Whole(2)
    /\ out.floor_used_m2 <= FloorAreaM2(veh)
    /\ FloorAreaM2(veh) - out.floor_used_m2 < STILLAGE_AREA_M2
    /\ lay.overflow = << >>
    /\ Len(lay.placed) = out.door_stillages + Ceil(large_pallet_qty, 4)

=============================================================================
